---- MODULE Spec2Model ----
(***************************************************************************)
(* three-body-tui: the simulation engine (src/simulations.rs), the N-body  *)
(* scenario it drives (src/simulations/nbody.rs) and the stand-alone App   *)
(* of src/main.rs, as state machines.                                      *)
(*                                                                         *)
(* Numbers.  An f64 position, velocity or acceleration is held in fixed    *)
(* point, in hundredths of a unit (FScale), or is NaN; every quotient is   *)
(* truncated toward zero.  The gravitational constant only ever takes the  *)
(* values 1e2 * 10^k, so it is held as its decimal exponent; a force is    *)
(* held as a mantissa times that power of ten.  The drag is held in        *)
(* hundredths, the speed (an i64) as an integer.                           *)
(***************************************************************************)
EXTENDS Integers, Sequences, FiniteSets, TLC

\* ------------------------------------------------------------------ bounds
\* iterations of the run loop that are explored
MaxTicks == 4
\* Logger::log calls explored by the logging driver
MaxLogged == 103
\* increments explored by the settings round trip
MaxTrip == 308
\* how far Left/Right may carry Speed or Drag from its initial value when
\* the settings panel is explored on its own
MaxSpan == 2
\* updates in a row explored when update is explored on its own
MaxSteps == 3
\* events other than zoom keys explored when the App's keys are explored
\* on their own
MaxOtherKeys == 2

\* ------------------------------------------------------- program constants
LogCap == 100
NSettings == 3
SpeedInit == 3
GravityInitExp == 2
DragInit == 99
AppSpeedInit == 5
ZoomInit == 10
ZoomMin == 1
ZoomMax == 20
FpsInit == 60
InitialBodies == 3
NColours == 8
\* the lines of the log that render asks for
LogLines == 10
\* hundredths of a unit per unit: the fixed-point resolution of an f64
FScale == 100
\* the clamp of Body::step, 0.1
AccMax == FScale \div 10
\* the inlier radius of ransac_centroid, 150.
InlierRadius == 150 * FScale
\* f64: 1e308 is the largest power of ten below f64::MAX, 1e-323 the
\* smallest above zero; one step further gives inf and 0.0
GravityMaxExp == 308
GravityMinExp == -323

VARIABLES
    pc,          \* where the run loop stands
    ticks,       \* iterations of the run loop started
    exit,        \* Simulation.exit / App.exit
    reset,       \* Simulation.reset / App.reset
    pause,       \* Simulation.pause / App.pause
    fps,         \* Simulation.fps / App.fps
    logs,        \* Logger.logs / App.logs
    nlogged,     \* how many times log has been called
    entities,    \* NBody.entities / App.entities
    trail,       \* NBody.trail / App.trail
    id_counter,  \* NBody.id_counter / App.id_counter
    selected,    \* SettingsBlock.selected
    speed,       \* Speed.0 / App.speed
    gravity,     \* Gravity.0 / App.force_g, as a decimal exponent
    drag,        \* Drag.0 / App.drag, in hundredths
    zoom,        \* App.zoom
    calls,       \* what the current iteration has invoked so far, in order
    tick0,       \* the flags and bodies as the current iteration found them
    read,        \* the event the current iteration read, if any
    forwarded,   \* the key events the current iteration handed to
                 \* Simulatable::handle_key_events
    trip,        \* the settings round trip: where it started, how far it is
    upd,         \* what the last update computed on its way
    shown,       \* the log text as last rendered
    toggled      \* whether a pause toggle has been dispatched yet

vars == <<pc, ticks, exit, reset, pause, fps, logs, nlogged, entities, trail,
          id_counter, selected, speed, gravity, drag, zoom, calls, tick0,
          read, forwarded, trip, upd, shown, toggled>>

\* ------------------------------------------------------------- arithmetic
Abs(n) == IF n < 0 THEN -n ELSE n

Sign(n) == IF n < 0 THEN -1 ELSE IF n > 0 THEN 1 ELSE 0

\* the quotient truncated toward zero
TDiv(a, b) == Sign(a) * Sign(b) * (Abs(a) \div Abs(b))

RECURSIVE SqrtSearch(_, _, _)
SqrtSearch(n, lo, hi) ==
    IF lo >= hi THEN lo
    ELSE LET mid == (lo + hi + 1) \div 2
         IN IF mid * mid <= n THEN SqrtSearch(n, mid, hi)
                              ELSE SqrtSearch(n, lo, mid - 1)

\* the square root, rounded down
ISqrt(n) == SqrtSearch(n, 0, 46340)

\* ------------------------------------------------------------ f64 values
Num(n) == [k |-> "num", v |-> n]

NaN == [k |-> "nan", v |-> 0]

Inf(s) == [k |-> "inf", v |-> s]

IsNum(a) == a.k = "num"

FNeg(a) == IF a.k = "nan" THEN NaN ELSE [a EXCEPT !.v = -a.v]

FAdd(a, b) ==
    IF a.k = "nan" \/ b.k = "nan" THEN NaN
    ELSE IF a.k = "inf" /\ b.k = "inf"
         THEN IF a.v = b.v THEN a ELSE NaN
    ELSE IF a.k = "inf" THEN a
    ELSE IF b.k = "inf" THEN b
    ELSE Num(a.v + b.v)

FSub(a, b) == FAdd(a, FNeg(b))

\* a * n for an exact integer n
FMulInt(a, n) ==
    IF a.k = "nan" THEN NaN
    ELSE IF a.k = "inf" THEN (IF n = 0 THEN NaN ELSE Inf(a.v * Sign(n)))
    ELSE Num(a.v * n)

\* a * n / d for exact integers n and d, d not zero
FMulRatio(a, n, d) ==
    IF a.k = "nan" THEN NaN
    ELSE IF a.k = "inf" THEN (IF n = 0 THEN NaN ELSE Inf(a.v * Sign(n) * Sign(d)))
    ELSE Num(TDiv(a.v * n, d))

\* --------------------------------------------------------------- settings
GravityZero == GravityMinExp - 1

GravityInf == GravityMaxExp + 1

\* self.0 *= 10.0 on the f64 that holds 10^g
Gravity_increment(g) ==
    IF g = GravityZero THEN GravityZero
    ELSE IF g >= GravityMaxExp THEN GravityInf
    ELSE g + 1

\* self.0 *= 0.1
Gravity_decrement(g) ==
    IF g = GravityInf THEN GravityInf
    ELSE IF g <= GravityMinExp THEN GravityZero
    ELSE g - 1

\* format!("{:.0}", self.0): no digit after the point, so every value
\* below one half prints as 0
Gravity_value(g) ==
    IF g = GravityInf THEN [s |-> "inf", z |-> 0]
    ELSE IF g < 0 THEN [s |-> "0", z |-> 0]
    ELSE [s |-> "1", z |-> g]

Speed_increment(s) == s + 1

Speed_decrement(s) == s - 1

\* format!("{}", self.0)
Speed_value(s) == [s |-> "int", z |-> s]

Drag_increment(d) == d + 1

Drag_decrement(d) == d - 1

\* format!("{:.2}", self.0): sign, integer part, two decimals
Drag_value(d) == [s |-> (IF d < 0 THEN "-" ELSE "+"), z |-> Abs(d) \div 100, f |-> Abs(d) % 100]

\* settings: vec![speed, gravity, drag], as the values the three cells hold
Settings == <<speed, gravity, drag>>

SettingsIncrement(i, st) ==
    IF i = 0 THEN <<Speed_increment(st[1]), st[2], st[3]>>
    ELSE IF i = 1 THEN <<st[1], Gravity_increment(st[2]), st[3]>>
    ELSE <<st[1], st[2], Drag_increment(st[3])>>

SettingsDecrement(i, st) ==
    IF i = 0 THEN <<Speed_decrement(st[1]), st[2], st[3]>>
    ELSE IF i = 1 THEN <<st[1], Gravity_decrement(st[2]), st[3]>>
    ELSE <<st[1], st[2], Drag_decrement(st[3])>>

\* what SettingsBlock::render shows for setting i
SettingsValue(i, st) ==
    IF i = 0 THEN Speed_value(st[1])
    ELSE IF i = 1 THEN Gravity_value(st[2])
    ELSE Drag_value(st[3])

\* an up without the test for the first index
SettingsBlock_up_unguarded(sel) == sel - 1

\* the new selected index
SettingsBlock_up(sel) == IF sel /= 0 THEN sel - 1 ELSE sel

SettingsBlock_down(sel) == IF sel < NSettings - 1 THEN sel + 1 ELSE sel

\* the new values of the three settings
SettingsBlock_left(sel, st) == SettingsDecrement(sel, st)

\* a right that always adjusts the first setting
SettingsBlock_right_first(sel, st) == SettingsIncrement(0, st)

SettingsBlock_right(sel, st) == SettingsIncrement(sel, st)

\* ----------------------------------------------------------------- logger
\* a log that evicts the newest line instead of the oldest
Logger_log_pop_back(lg, text) ==
    LET pushed == Append(lg, text)
    IN IF Len(pushed) > LogCap THEN SubSeq(pushed, 1, LogCap) ELSE pushed

\* push_back, then pop_front once the buffer holds more than 100
Logger_log(lg, text) ==
    LET pushed == Append(lg, text)
    IN IF Len(pushed) > LogCap THEN Tail(pushed) ELSE pushed

RECURSIVE LogAll(_, _)
LogAll(lg, texts) ==
    IF texts = <<>> THEN lg
    ELSE LogAll(Logger_log(lg, Head(texts)), Tail(texts))

Min(a, b) == IF a < b THEN a ELSE b

\* the character that ends every line of the rendered text
Newline == [t |-> "newline", i |-> 0, j |-> 0, val |-> <<>>]

\* a text of the first n lines asked for, whatever the buffer holds
Logger_get_logs_oldest(lg, n) ==
    LET len == Len(lg)
        count == Min(n, len)
    IN [k \in 1..(2 * count) |-> IF k % 2 = 1 THEN lg[(k + 1) \div 2] ELSE Newline]

\* the String of the lines self.len() - n.min(self.len()) .. self.len(),
\* each followed by a newline, as the sequence of its lines and newlines
Logger_get_logs(lg, n) ==
    LET len == Len(lg)
        first == len - Min(n, len)
    IN [k \in 1..(2 * (len - first)) |->
          IF k % 2 = 1 THEN lg[first + (k + 1) \div 2] ELSE Newline]

\* ------------------------------------------------------------------ bodies
\* the samples of Body::rand's ranges that are explored: x and y in
\* -50.0..=50.0, dx and dy in -0.1..=0.1, as <<x, y, dx, dy>> in hundredths
RandDraws == {<<-2000, -1500, 5, 10>>, <<2500, 3000, -10, 0>>}

\* the samples of vec![Body::rand(0), Body::rand(1), Body::rand(2)]
RandScenarios ==
    { << <<0, 0, 0, 0>>, <<1000, 0, 0, 0>>, <<0, 1000, 0, 0>> >>,
      << <<-3000, 2000, 10, -5>>, <<4000, -1000, -10, 0>>, <<500, 4500, 0, 10>> >> }

Body(d, id) ==
    [mass |-> 1, x |-> Num(d[1]), y |-> Num(d[2]), dx |-> Num(d[3]), dy |-> Num(d[4]),
     colour |-> id % NColours]

\* the bodies Body::rand(id) may return
Body_rand(id) == { Body(d, id) : d \in RandDraws }

\* the collections the initial scenario may be
InitialScenario == { [i \in 1..InitialBodies |-> Body(sc[i], i - 1)] : sc \in RandScenarios }

\* a marker that keeps the mass and the velocity of its body
Body_get_trail_copy(b) == b

Body_get_trail(b) ==
    [mass |-> 0, x |-> b.x, y |-> b.y, dx |-> Num(0), dy |-> Num(0), colour |-> b.colour]

RECURSIVE ScaleClamp(_, _)
\* v * 10^e clamped to -AccMax..AccMax
ScaleClamp(v, e) ==
    IF v = 0 THEN 0
    ELSE IF e > 0
         THEN IF Abs(v) >= AccMax THEN Sign(v) * AccMax ELSE ScaleClamp(v * 10, e - 1)
    ELSE IF e < 0 THEN ScaleClamp(TDiv(v, 10), e + 1)
    ELSE IF Abs(v) >= AccMax THEN Sign(v) * AccMax ELSE v

\* an acceleration clamped to -1.0..1.0
Accel_wide(m, e, mass) ==
    IF m.k = "nan" THEN NaN
    ELSE IF m.k = "inf" THEN Num(m.v * AccMax * 10)
    ELSE Num(10 * ScaleClamp(TDiv(m.v, mass), e - 1))

\* (m * 10^e / mass).clamp(-0.1, 0.1); clamp keeps a NaN
Accel(m, e, mass) ==
    IF m.k = "nan" THEN NaN
    ELSE IF m.k = "inf" THEN Num(m.v * AccMax)
    ELSE Num(ScaleClamp(TDiv(m.v, mass), e))

\* force is the vector (force.x, force.y) * 10^force.e, time the speed
\* setting, drag in hundredths
Body_step(b, force, time, drg) ==
    LET ddx == Accel(force.x, force.e, b.mass)
        ddy == Accel(force.y, force.e, b.mass)
    IN [b EXCEPT
          !.x = FAdd(b.x, FAdd(FMulInt(b.dx, time), FMulRatio(ddx, time * time, 2))),
          !.y = FAdd(b.y, FAdd(FMulInt(b.dy, time), FMulRatio(ddy, time * time, 2))),
          !.dx = FMulRatio(FAdd(b.dx, FMulInt(ddx, time)), drg, 100),
          !.dy = FMulRatio(FAdd(b.dy, FMulInt(ddy, time)), drg, 100)]

\* whether e lies within the inlier radius of the candidate c: a NaN
\* distance is not below 150
Inlier(c, e) ==
    /\ IsNum(c.x) /\ IsNum(c.y) /\ IsNum(e.x) /\ IsNum(e.y)
    /\ Abs(c.x.v - e.x.v) < InlierRadius
    /\ Abs(c.y.v - e.y.v) < InlierRadius
    /\ ISqrt((c.x.v - e.x.v) * (c.x.v - e.x.v) + (c.y.v - e.y.v) * (c.y.v - e.y.v))
          < InlierRadius

InlierCount(points, i) == Cardinality({ k \in 1..Len(points) : Inlier(points[i], points[k]) })

RECURSIVE SumInliers_others(_, _, _)
\* a fold that leaves the candidate itself out of its own inlier set
SumInliers_others(points, i, k) ==
    IF k > Len(points) THEN <<0, 0>>
    ELSE LET rest == SumInliers_others(points, i, k + 1)
         IN IF k /= i /\ Inlier(points[i], points[k])
            THEN <<points[k].x.v + rest[1], points[k].y.v + rest[2]>>
            ELSE rest

RECURSIVE SumInliers(_, _, _)
\* the fold over the inliers of candidate i, from point k on
SumInliers(points, i, k) ==
    IF k > Len(points) THEN <<0, 0>>
    ELSE LET rest == SumInliers(points, i, k + 1)
         IN IF Inlier(points[i], points[k])
            THEN <<points[k].x.v + rest[1], points[k].y.v + rest[2]>>
            ELSE rest

RECURSIVE RansacLoop_ties_last(_, _, _, _)
\* a loop that lets a later candidate with as many inliers win
RansacLoop_ties_last(points, i, center, highest_inliers) ==
    IF i > Len(points) THEN center
    ELSE LET inliers == InlierCount(points, i)
             sum == SumInliers(points, i, 1)
         IN IF inliers >= highest_inliers /\ inliers > 0
            THEN RansacLoop_ties_last(points, i + 1,
                            <<TDiv(sum[1], Len(points)), TDiv(sum[2], Len(points))>>,
                            inliers)
            ELSE RansacLoop_ties_last(points, i + 1, center, highest_inliers)

RECURSIVE RansacLoop(_, _, _, _)
RansacLoop(points, i, center, highest_inliers) ==
    IF i > Len(points) THEN center
    ELSE LET inliers == InlierCount(points, i)
             sum == SumInliers(points, i, 1)
         IN IF inliers > highest_inliers
            THEN RansacLoop(points, i + 1,
                            <<TDiv(sum[1], Len(points)), TDiv(sum[2], Len(points))>>,
                            inliers)
            ELSE RansacLoop(points, i + 1, center, highest_inliers)

\* the centre, <<x, y>> in hundredths
ransac_centroid(points) == RansacLoop(points, 1, <<0, 0>>, 0)

\* ------------------------------------------------------------------ update
\* the mantissa scale of a force: G * m * m / r^2 is held as
\* ForceMantissa(r) * 10^(g - 3) hundredths, G being 10^g
ForceScale == 1000000000

\* a.mass * b.mass / r.powi(2) at unit G, r in hundredths and not zero
ForceMantissa(ma, mb, r) == TDiv(TDiv(ForceScale * ma * mb, r), r)

\* ab_hat * force for one component d of a - b, in the mantissa's unit
Contribution(d, r, fm) ==
    LET hat == TDiv(d * 1000, r)
    IN IF fm >= 1000000 THEN TDiv(fm, 1000) * hat ELSE TDiv(fm * hat, 1000)

RECURSIVE Pow10(_)
Pow10(k) == IF k <= 0 THEN 1 ELSE 10 * Pow10(k - 1)

\* whether 10^g / r^2 exceeds f64::MAX, 1.797e308, for r in hundredths and
\* not zero: 10^(g + 4) / r^2 > 1.797e308
ForceOverflows(g, r) ==
    /\ g > GravityMaxExp - 4
    /\ r < FScale
    /\ 1000 * Pow10(g - (GravityMaxExp - 4)) > 1797 * r * r

\* a pair that adds the forces[j] term with the sign of the forces[i] term
AddPair_same_sign(forces, p, pf) ==
    [forces EXCEPT
       ![p.i + 1] = [x |-> FSub(@.x, pf.x), y |-> FSub(@.y, pf.y)],
       ![p.j + 1] = [x |-> FSub(@.x, pf.x), y |-> FSub(@.y, pf.y)]]

\* the pair (a, b): r, the kind of f64 that force is (f), and ab_hat * force
\* as a vector of force values
PairForce(a, b, g) ==
    IF ~(IsNum(a.x) /\ IsNum(a.y) /\ IsNum(b.x) /\ IsNum(b.y))
    THEN [r |-> NaN, f |-> "nan", x |-> NaN, y |-> NaN]
    ELSE LET ddx == a.x.v - b.x.v
             ddy == a.y.v - b.y.v
             r == ISqrt(ddx * ddx + ddy * ddy)
         IN IF r = 0
            \* force is G / 0, and 0 / 0 when G is 0.0; ab_hat is 0/0
            THEN [r |-> Num(0), f |-> IF g = GravityZero THEN "nan" ELSE "inf",
                  x |-> NaN, y |-> NaN]
            ELSE IF g = GravityInf \/ ForceOverflows(g, r)
            \* force is inf: inf * 0 is NaN
            THEN [r |-> Num(r), f |-> "inf",
                  x |-> IF ddx = 0 THEN NaN ELSE Inf(Sign(ddx)),
                  y |-> IF ddy = 0 THEN NaN ELSE Inf(Sign(ddy))]
            ELSE IF g = GravityZero
            THEN [r |-> Num(r), f |-> "num", x |-> Num(0), y |-> Num(0)]
            ELSE LET fm == ForceMantissa(a.mass, b.mass, r)
                 IN [r |-> Num(r), f |-> "num",
                     x |-> Num(Contribution(ddx, r, fm)),
                     y |-> Num(Contribution(ddy, r, fm))]

RECURSIVE PairsFrom(_, _, _)
\* the pairs the two loops visit from (i, j) on, 0-based, in order:
\* i in 0..n-1 (exclusive), j in i+1..n (exclusive)
PairsFrom(i, j, n) ==
    IF i >= n - 1 THEN <<>>
    ELSE IF j >= n THEN PairsFrom(i + 1, i + 2, n)
    ELSE <<[i |-> i, j |-> j]>> \o PairsFrom(i, j + 1, n)

\* loops whose first row starts at the body itself
Pairs_with_self(n) == PairsFrom(0, 0, n)

Pairs(n) == PairsFrom(0, 1, n)

\* forces[i] -= ab_hat * force; forces[j] += ab_hat * force
AddPair(forces, p, pf) ==
    [forces EXCEPT
       ![p.i + 1] = [x |-> FSub(@.x, pf.x), y |-> FSub(@.y, pf.y)],
       ![p.j + 1] = [x |-> FAdd(@.x, pf.x), y |-> FAdd(@.y, pf.y)]]

RECURSIVE ForcePass(_, _, _, _)
ForcePass(ents, g, pairs, forces) ==
    IF pairs = <<>> THEN forces
    ELSE LET p == Head(pairs)
         IN ForcePass(ents, g, Tail(pairs),
                      AddPair(forces, p, PairForce(ents[p.i + 1], ents[p.j + 1], g)))

\* format!("[{i},{j}] r: {r:?}")
PairLog(ents, p, g) ==
    [t |-> "pair", i |-> p.i, j |-> p.j, val |-> <<PairForce(ents[p.i + 1], ents[p.j + 1], g).r>>]

\* format!("[{i}] force: {:?}", forces[i])
ForceLog(forces, i) ==
    [t |-> "force", i |-> i - 1, j |-> i - 1, val |-> <<forces[i].x, forces[i].y>>]

\* a recentring that snaps to the centroid instead of damping by a tenth
Recentre_snap(b, c) ==
    [b EXCEPT !.x = FSub(@, Num(c[1])), !.y = FSub(@, Num(c[2]))]

\* e.x -= 0.1 * centroid.0; e.y -= 0.1 * centroid.1
Recentre(b, c) ==
    [b EXCEPT !.x = FSub(@, Num(TDiv(c[1], 10))), !.y = FSub(@, Num(TDiv(c[2], 10)))]

\* the two passes over the trail: e.x -= 0.1 * centroid.0, twice
RecentreTrail(b, c) ==
    [b EXCEPT !.x = FSub(FSub(@, Num(TDiv(c[1], 10))), Num(TDiv(c[1], 10)))]

\* what 0..self.entities.len() - 1 does with no entity: the subtraction
\* overflows, which panics in a build with overflow checks and otherwise
\* wraps to usize::MAX, a loop that does not end
EmptyOutcomes == {"panicked", "frozen"}

\* NBody::update and App::update_entities with at least one body: the new
\* bodies, the new trail and the lines logged, in order
NBody_update(ents, tr, spd, g, drg) ==
    LET n == Len(ents)
        trailed == tr \o [i \in 1..n |-> Body_get_trail(ents[i])]
        zero == [i \in 1..n |-> [x |-> Num(0), y |-> Num(0)]]
        pairs == Pairs(n)
        forces == ForcePass(ents, g, pairs, zero)
        stepped == [i \in 1..n |->
                      Body_step(ents[i], [x |-> forces[i].x, y |-> forces[i].y, e |-> g - 3],
                                spd, drg)]
        centroid == ransac_centroid(stepped)
    IN [entities |-> [i \in 1..n |-> Recentre(stepped[i], centroid)],
        trail |-> [i \in 1..Len(trailed) |-> RecentreTrail(trailed[i], centroid)],
        texts |-> [k \in 1..Len(pairs) |-> PairLog(ents, pairs[k], g)]
                  \o [i \in 1..n |-> ForceLog(forces, i)],
        forces |-> forces,
        stepped |-> stepped,
        trailed |-> trailed,
        centroid |-> centroid]

\* no update has run yet
NoUpdate ==
    [before |-> <<>>, trailed |-> <<>>, forces |-> <<>>, stepped |-> <<>>,
     centroid |-> <<0, 0>>, texts |-> <<>>]

\* the locals of the update u of the bodies ents: the trail as pushed, the
\* forces vector, the bodies as stepped, the centroid, the lines logged
Computed(ents, u) ==
    [before |-> ents, trailed |-> u.trailed, forces |-> u.forces, stepped |-> u.stepped,
     centroid |-> u.centroid, texts |-> u.texts]

\* ------------------------------------------------------------------ events
Press(c) == [type |-> "key", code |-> c, kind |-> "Press"]

Release(c) == [type |-> "key", code |-> c, kind |-> "Release"]

Resize == [type |-> "resize", code |-> "", kind |-> ""]

\* the keys Simulation::handle_key_event matches by name
ReservedKeys == {"q", " ", "r", "Left", "Right", "Up", "Down"}

\* what event::read is taken to return to the engine
EngineEvents ==
    { Press(c) : c \in ReservedKeys \cup {"a", "Q"} } \cup { Release("q"), Release("a"), Resize }

\* what event::read is taken to return to the App
AppEvents ==
    { Press(c) : c \in {"q", "a", "x", " ", "r", "Left", "Right", "-", "+", "Up", "Down", "z"} }
      \cup { Release("q"), Resize }

\* the elapsed milliseconds an iteration of the engine is taken to measure
DeltaTimes == {0, 16}

\* the elapsed milliseconds an iteration of the App is taken to measure
AppDeltaTimes == {16}

\* ---------------------------------------------------------------- the fps
\* fps is a u64: n, or with big set the value u64::MAX * 0.99^n, which the
\* cast of an infinite f64 saturates to
Fps(n) == [big |-> FALSE, n |-> n]

\* ((self.fps as f64 * 0.99) + (1000. / delta_time as f64 * 0.01)) as u64
FpsNext(f, delta_time) ==
    IF delta_time = 0 THEN [big |-> TRUE, n |-> 0]
    ELSE IF f.big THEN [big |-> TRUE, n |-> f.n + 1]
    ELSE Fps((f.n * 99 * delta_time + 1000) \div (100 * delta_time))

\* ------------------------------------------------------------- the engine
\* a dispatch that hands the pause key to the Simulatable as well
Simulation_handle_key_event_leaky(key_event, k) ==
    LET code == key_event.code
    IN IF code = "q" THEN [k EXCEPT !.exit = TRUE]
       ELSE IF code = " " THEN [k EXCEPT !.pause = ~k.pause, !.fwd = Append(k.fwd, key_event)]
       ELSE IF code = "r" THEN [k EXCEPT !.reset = TRUE]
       ELSE IF code = "Left" THEN [k EXCEPT !.settings = SettingsBlock_left(k.selected, k.settings)]
       ELSE IF code = "Right" THEN [k EXCEPT !.settings = SettingsBlock_right(k.selected, k.settings)]
       ELSE IF code = "Up" THEN [k EXCEPT !.selected = SettingsBlock_up(k.selected)]
       ELSE IF code = "Down" THEN [k EXCEPT !.selected = SettingsBlock_down(k.selected)]
       ELSE [k EXCEPT !.fwd = Append(k.fwd, key_event)]

\* a dispatch whose space key resumes but never pauses
Simulation_handle_key_event_resume(key_event, k) ==
    LET code == key_event.code
    IN IF code = "q" THEN [k EXCEPT !.exit = TRUE]
       ELSE IF code = " " THEN [k EXCEPT !.pause = FALSE]
       ELSE IF code = "r" THEN [k EXCEPT !.reset = TRUE]
       ELSE IF code = "Left" THEN [k EXCEPT !.settings = SettingsBlock_left(k.selected, k.settings)]
       ELSE IF code = "Right" THEN [k EXCEPT !.settings = SettingsBlock_right(k.selected, k.settings)]
       ELSE IF code = "Up" THEN [k EXCEPT !.selected = SettingsBlock_up(k.selected)]
       ELSE IF code = "Down" THEN [k EXCEPT !.selected = SettingsBlock_down(k.selected)]
       ELSE [k EXCEPT !.fwd = Append(k.fwd, key_event)]

\* Simulation::handle_key_event on the flags, the panel and the settings k:
\* the new k, with the event in fwd when the Simulatable is handed it
Simulation_handle_key_event(key_event, k) ==
    LET code == key_event.code
    IN IF code = "q" THEN [k EXCEPT !.exit = TRUE]
       ELSE IF code = " " THEN [k EXCEPT !.pause = ~k.pause]
       ELSE IF code = "r" THEN [k EXCEPT !.reset = TRUE]
       ELSE IF code = "Left" THEN [k EXCEPT !.settings = SettingsBlock_left(k.selected, k.settings)]
       ELSE IF code = "Right" THEN [k EXCEPT !.settings = SettingsBlock_right(k.selected, k.settings)]
       ELSE IF code = "Up" THEN [k EXCEPT !.selected = SettingsBlock_up(k.selected)]
       ELSE IF code = "Down" THEN [k EXCEPT !.selected = SettingsBlock_down(k.selected)]
       ELSE [k EXCEPT !.fwd = Append(k.fwd, key_event)]

\* Simulation::handle_events: only a key press is dispatched
Simulation_handle_events(ev, k) ==
    IF ev.type = "key" /\ ev.kind = "Press" THEN Simulation_handle_key_event(ev, k) ELSE k

EngineKeyState ==
    [exit |-> exit, pause |-> pause, reset |-> reset, selected |-> selected,
     settings |-> Settings, fwd |-> forwarded]

\* a loop that runs while the flag is set
LoopRunsWhileSet(ex) == ex

\* a loop that never tests the flag
LoopRunsAlways(ex) == TRUE

\* while !self.exit
LoopRuns(ex) == ~ex

\* a reset block that is skipped while paused
ShouldResetUnlessPaused(flag, paused) == flag /\ ~paused

\* if self.reset
ShouldReset(flag, paused) == flag

\* an update that runs whatever the pause flag says
ShouldUpdateAlways(paused) == TRUE

\* if !self.pause
ShouldUpdate(paused) == ~paused

\* a reset that leaves the trail and the id counter as they are
NBody_reset_bodies_only(tr, idc) == [trail |-> tr, id_counter |-> idc]

\* NBody::reset on the trail tr and the id counter idc; the bodies are
\* drawn anew, one of InitialScenario
NBody_reset(tr, idc) == [trail |-> <<>>, id_counter |-> InitialBodies]

\* a reset block that also resumes the simulation
Simulation_reset_block_resumes(flags) == [flags EXCEPT !.reset = FALSE, !.pause = FALSE]

\* the flags after self.simulation.reset(); self.reset = false
Simulation_reset_block(flags) == [flags EXCEPT !.reset = FALSE]

\* the flags of the engine
Flags == [exit |-> exit, reset |-> reset, pause |-> pause]

\* while !self.exit, and the reset block
LoopTop ==
    /\ pc = "top"
    /\ \/ /\ ~LoopRuns(exit)
          /\ pc' = "done"
          /\ UNCHANGED <<ticks, exit, reset, pause, entities, trail, id_counter, calls, tick0,
                         read, forwarded>>
       \/ /\ LoopRuns(exit)
          /\ ticks < MaxTicks
          /\ ticks' = ticks + 1
          /\ tick0' = [reset |-> reset, pause |-> pause, entities |-> entities, trail |-> trail]
          /\ read' = <<>>
          /\ forwarded' = <<>>
          /\ pc' = "update"
          /\ \/ /\ ShouldReset(reset, pause)
                \* NBody::reset
                /\ entities' \in InitialScenario
                /\ trail' = NBody_reset(trail, id_counter).trail
                /\ id_counter' = NBody_reset(trail, id_counter).id_counter
                /\ exit' = Simulation_reset_block(Flags).exit
                /\ reset' = Simulation_reset_block(Flags).reset
                /\ pause' = Simulation_reset_block(Flags).pause
                /\ calls' = <<"reset">>
             \/ /\ ~ShouldReset(reset, pause)
                /\ calls' = <<>>
                /\ UNCHANGED <<exit, reset, pause, entities, trail, id_counter>>
    /\ UNCHANGED <<fps, logs, nlogged, selected, speed, gravity, drag, zoom, trip, upd, shown,
                   toggled>>

\* if !self.pause { self.simulation.update() }
StepUpdate ==
    /\ pc = "update"
    /\ \/ /\ ShouldUpdate(pause)
          /\ Len(entities) > 0
          /\ LET u == NBody_update(entities, trail, speed, gravity, drag)
             IN /\ entities' = u.entities
                /\ trail' = u.trail
                /\ logs' = LogAll(logs, u.texts)
                /\ nlogged' = nlogged + Len(u.texts)
                /\ upd' = Computed(entities, u)
          /\ calls' = Append(calls, "update")
          /\ pc' = "draw"
       \/ /\ ShouldUpdate(pause)
          /\ Len(entities) = 0
          /\ pc' \in EmptyOutcomes
          /\ calls' = Append(calls, "update")
          /\ UNCHANGED <<entities, trail, logs, nlogged, upd>>
       \/ /\ ~ShouldUpdate(pause)
          /\ pc' = "draw"
          /\ UNCHANGED <<entities, trail, logs, nlogged, calls, upd>>
    /\ UNCHANGED <<ticks, exit, reset, pause, fps, id_counter, selected, speed, gravity,
                   drag, zoom, tick0, read, forwarded, trip, shown, toggled>>

\* terminal.draw(|frame| self.render_frame(frame))?
Draw ==
    /\ pc = "draw"
    /\ \/ /\ pc' = "poll"
          /\ calls' = Append(calls, "render")
          /\ shown' = Logger_get_logs(logs, LogLines)
       \/ /\ pc' = "failed"
          /\ UNCHANGED <<calls, shown>>
    /\ UNCHANGED <<ticks, exit, reset, pause, fps, logs, nlogged, entities, trail, id_counter,
                   selected, speed, gravity, drag, zoom, tick0, read, forwarded, trip, upd, toggled>>

\* if event::poll(16ms)? { self.handle_events()? }
Poll ==
    /\ pc = "poll"
    /\ \/ \* the poll timed out
          /\ pc' = "fps"
          /\ calls' = Append(calls, "poll")
          /\ UNCHANGED <<exit, pause, reset, selected, speed, gravity, drag, read, forwarded,
                         toggled>>
       \/ \* poll or read failed
          /\ pc' = "failed"
          /\ UNCHANGED <<calls, exit, pause, reset, selected, speed, gravity, drag, read,
                         forwarded, toggled>>
       \/ \E ev \in EngineEvents :
             LET k == Simulation_handle_events(ev, EngineKeyState)
             IN /\ exit' = k.exit
                /\ pause' = k.pause
                /\ reset' = k.reset
                /\ selected' = k.selected
                /\ speed' = k.settings[1]
                /\ gravity' = k.settings[2]
                /\ drag' = k.settings[3]
                /\ forwarded' = k.fwd
                /\ read' = <<ev>>
                /\ toggled' = (toggled \/ ev = Press(" "))
                /\ calls' = calls \o <<"poll", "handle_events">>
                /\ pc' = "fps"
    /\ UNCHANGED <<ticks, fps, logs, nlogged, entities, trail, id_counter, zoom, tick0, trip, upd, shown>>

\* the fps estimate that ends the iteration
FpsStepOn(deltas) ==
    /\ pc = "fps"
    /\ \E delta_time \in deltas : fps' = FpsNext(fps, delta_time)
    /\ pc' = "top"
    /\ UNCHANGED <<ticks, exit, reset, pause, logs, nlogged, entities, trail, id_counter,
                   selected, speed, gravity, drag, zoom, calls, tick0, read, forwarded,
                   trip, upd, shown, toggled>>

FpsStep == FpsStepOn(DeltaTimes)

\* NBody::init
Init ==
    /\ pc = "top"
    /\ ticks = 0
    /\ exit = FALSE
    /\ pause = TRUE
    /\ reset = FALSE
    /\ fps = Fps(FpsInit)
    /\ logs = <<>>
    /\ nlogged = 0
    /\ entities \in InitialScenario
    /\ trail = <<>>
    /\ id_counter = InitialBodies
    /\ selected = 0
    /\ speed = SpeedInit
    /\ gravity = GravityInitExp
    /\ drag = DragInit
    /\ zoom = ZoomInit
    /\ calls = <<>>
    /\ tick0 = [reset |-> FALSE, pause |-> TRUE, entities |-> entities, trail |-> <<>>]
    /\ read = <<>>
    /\ forwarded = <<>>
    /\ trip = [n |-> 0, k |-> 0, from |-> <<SpeedInit, GravityInitExp, DragInit>>]
    /\ upd = NoUpdate
    /\ shown = <<>>
    /\ toggled = FALSE

Next == LoopTop \/ StepUpdate \/ Draw \/ Poll \/ FpsStep

Spec == Init /\ [][Next]_vars

\* ---------------------------------------------------------------- the App
\* a zoom_in without its test
App_zoom_in_unguarded(z) == z - 1

\* App::zoom_in
App_zoom_in(z) == IF z > ZoomMin THEN z - 1 ELSE z

\* App::zoom_out
App_zoom_out(z) == IF z < ZoomMax THEN z + 1 ELSE z

\* App::add_entity with body the one Body::rand(self.id_counter) returned
App_add_entity(a, body) ==
    [a EXCEPT !.entities = Append(a.entities, body), !.id_counter = a.id_counter + 1]

\* a removal that takes the newest body: pop_back
App_remove_entity_back(a) ==
    [a EXCEPT !.entities = IF a.entities = <<>> THEN <<>>
                           ELSE SubSeq(a.entities, 1, Len(a.entities) - 1)]

\* App::remove_entity: pop_front, which leaves an empty collection empty
App_remove_entity(a) ==
    [a EXCEPT !.entities = IF a.entities = <<>> THEN <<>> ELSE Tail(a.entities)]

\* App::handle_key_event on the fields a
App_handle_key_event(key_event, a, body) ==
    LET code == key_event.code
    IN IF code = "q" THEN [a EXCEPT !.exit = TRUE]
       ELSE IF code = "a" THEN App_add_entity(a, body)
       ELSE IF code = "x" THEN App_remove_entity(a)
       ELSE IF code = " " THEN [a EXCEPT !.pause = ~a.pause]
       ELSE IF code = "r" THEN [a EXCEPT !.reset = TRUE]
       ELSE IF code = "Left" THEN [a EXCEPT !.speed = a.speed - 1]
       ELSE IF code = "Right" THEN [a EXCEPT !.speed = a.speed + 1]
       ELSE IF code = "-" THEN [a EXCEPT !.zoom = App_zoom_in(a.zoom)]
       ELSE IF code = "+" THEN [a EXCEPT !.zoom = App_zoom_out(a.zoom)]
       ELSE IF code = "Up" THEN [a EXCEPT !.drag = a.drag + 1]
       ELSE IF code = "Down" THEN [a EXCEPT !.drag = a.drag - 1]
       ELSE a

\* App::handle_events
App_handle_events(ev, a, body) ==
    IF ev.type = "key" /\ ev.kind = "Press" THEN App_handle_key_event(ev, a, body) ELSE a

AppKeyState ==
    [exit |-> exit, pause |-> pause, reset |-> reset, speed |-> speed, drag |-> drag,
     zoom |-> zoom, entities |-> entities, id_counter |-> id_counter]

\* while !self.exit, and the reset block, which main.rs has inline
AppLoopTop == LoopTop

\* if !self.pause { self.update_entities() }
AppUpdate == StepUpdate

\* terminal.draw(|frame| self.render_frame(frame))?
AppDraw == Draw

\* if event::poll(16ms)? { self.handle_events()? }
AppPoll ==
    /\ pc = "poll"
    /\ \/ /\ pc' = "fps"
          /\ calls' = Append(calls, "poll")
          /\ UNCHANGED <<exit, pause, reset, speed, drag, zoom, entities, id_counter, read,
                         toggled>>
       \/ /\ pc' = "failed"
          /\ UNCHANGED <<calls, exit, pause, reset, speed, drag, zoom, entities, id_counter,
                         read, toggled>>
       \/ \E ev \in AppEvents : \E body \in Body_rand(id_counter) :
             LET a == App_handle_events(ev, AppKeyState, body)
             IN /\ exit' = a.exit
                /\ pause' = a.pause
                /\ reset' = a.reset
                /\ speed' = a.speed
                /\ drag' = a.drag
                /\ zoom' = a.zoom
                /\ entities' = a.entities
                /\ id_counter' = a.id_counter
                /\ read' = <<ev>>
                /\ toggled' = (toggled \/ ev = Press(" "))
                /\ calls' = calls \o <<"poll", "handle_events">>
                /\ pc' = "fps"
    /\ UNCHANGED <<ticks, fps, logs, nlogged, trail, selected, gravity, tick0, forwarded, trip, upd, shown>>

AppFps == FpsStepOn(AppDeltaTimes)

\* App::new
AppInit ==
    /\ pc = "top"
    /\ ticks = 0
    /\ exit = FALSE
    /\ pause = FALSE
    /\ reset = FALSE
    /\ fps = Fps(FpsInit)
    /\ logs = <<>>
    /\ nlogged = 0
    /\ entities \in InitialScenario
    /\ trail = <<>>
    /\ id_counter = InitialBodies
    /\ selected = 0
    /\ speed = AppSpeedInit
    /\ gravity = GravityInitExp
    /\ drag = DragInit
    /\ zoom = ZoomInit
    /\ calls = <<>>
    /\ tick0 = [reset |-> FALSE, pause |-> FALSE, entities |-> entities, trail |-> <<>>]
    /\ read = <<>>
    /\ forwarded = <<>>
    /\ trip = [n |-> 0, k |-> 0, from |-> <<AppSpeedInit, GravityInitExp, DragInit>>]
    /\ upd = NoUpdate
    /\ shown = <<>>
    /\ toggled = FALSE

AppNext == AppLoopTop \/ AppUpdate \/ AppDraw \/ AppPoll \/ AppFps

SpecApp == AppInit /\ [][AppNext]_vars

\* ------------------------------------------------------ the App's keys alone
\* the key events of the App one after another, each followed by the reset
\* block of the next iteration when it set the reset flag; the zoom keys
\* are explored without limit, and ticks counts the iterations that read
\* any other event, of which MaxOtherKeys are explored
ZoomKeys == { Press("-"), Press("+") }

AppKey ==
    /\ ~exit /\ ~reset
    /\ \E ev \in AppEvents : \E body \in Body_rand(id_counter) :
          LET a == App_handle_events(ev, AppKeyState, body)
          IN /\ ev \notin ZoomKeys => ticks < MaxOtherKeys
             /\ ticks' = (IF ev \in ZoomKeys THEN ticks ELSE ticks + 1)
             /\ exit' = a.exit
             /\ pause' = a.pause
             /\ reset' = a.reset
             /\ speed' = a.speed
             /\ drag' = a.drag
             /\ zoom' = a.zoom
             /\ entities' = a.entities
             /\ id_counter' = a.id_counter
             /\ read' = <<ev>>
             /\ toggled' = (toggled \/ ev = Press(" "))
    /\ UNCHANGED <<pc, fps, logs, nlogged, trail, selected, gravity, calls, tick0,
                   forwarded, trip, upd, shown>>

\* the reset block of App::run
AppResetBlock ==
    /\ ~exit /\ reset
    /\ entities' \in InitialScenario
    /\ trail' = NBody_reset(trail, id_counter).trail
    /\ id_counter' = NBody_reset(trail, id_counter).id_counter
    /\ reset' = FALSE
    /\ read' = <<>>
    /\ UNCHANGED <<pc, ticks, exit, pause, fps, logs, nlogged, selected, speed, gravity, drag,
                   zoom, calls, tick0, forwarded, trip, upd, shown, toggled>>

AppKeysNext == AppKey \/ AppResetBlock

SpecAppKeys == AppInit /\ [][AppKeysNext]_vars

\* ------------------------------------------------- the settings panel alone
\* the keys Up, Down, Left and Right as Simulation::handle_key_event
\* dispatches them, with Speed and Drag kept within MaxSpan of where they
\* started
InSpan(st) ==
    /\ Abs(st[1] - SpeedInit) <= MaxSpan
    /\ Abs(st[3] - DragInit) <= MaxSpan

PanelUp ==
    /\ selected' = SettingsBlock_up(selected)
    /\ UNCHANGED <<speed, gravity, drag>>

PanelDown ==
    /\ selected' = SettingsBlock_down(selected)
    /\ UNCHANGED <<speed, gravity, drag>>

PanelLeft ==
    /\ InSpan(SettingsBlock_left(selected, Settings))
    /\ speed' = SettingsBlock_left(selected, Settings)[1]
    /\ gravity' = SettingsBlock_left(selected, Settings)[2]
    /\ drag' = SettingsBlock_left(selected, Settings)[3]
    /\ UNCHANGED selected

PanelRight ==
    /\ InSpan(SettingsBlock_right(selected, Settings))
    /\ speed' = SettingsBlock_right(selected, Settings)[1]
    /\ gravity' = SettingsBlock_right(selected, Settings)[2]
    /\ drag' = SettingsBlock_right(selected, Settings)[3]
    /\ UNCHANGED selected

PanelRest ==
    UNCHANGED <<pc, ticks, exit, reset, pause, fps, logs, nlogged, entities, trail,
                id_counter, zoom, calls, tick0, read, forwarded, upd, shown, toggled>>

KeyUp == PanelUp /\ PanelRest /\ UNCHANGED trip

KeyDown == PanelDown /\ PanelRest /\ UNCHANGED trip

KeyLeft == PanelLeft /\ PanelRest /\ UNCHANGED trip

KeyRight == PanelRight /\ PanelRest /\ UNCHANGED trip

SettingsNext == KeyUp \/ KeyDown \/ KeyLeft \/ KeyRight

SpecSettings == Init /\ [][SettingsNext]_vars

\* --------------------------------------------------- the settings round trip
\* a setting is selected, then incremented trip.n times, then decremented
\* trip.k times
TripSelect ==
    /\ trip.n = 0
    /\ selected < NSettings - 1
    /\ PanelDown /\ PanelRest /\ UNCHANGED trip

TripRight ==
    /\ trip.k = 0
    /\ trip.n < MaxTrip
    /\ speed' = SettingsBlock_right(selected, Settings)[1]
    /\ gravity' = SettingsBlock_right(selected, Settings)[2]
    /\ drag' = SettingsBlock_right(selected, Settings)[3]
    /\ trip' = [trip EXCEPT !.n = @ + 1]
    /\ UNCHANGED selected /\ PanelRest

TripLeft ==
    /\ trip.k < trip.n
    /\ speed' = SettingsBlock_left(selected, Settings)[1]
    /\ gravity' = SettingsBlock_left(selected, Settings)[2]
    /\ drag' = SettingsBlock_left(selected, Settings)[3]
    /\ trip' = [trip EXCEPT !.k = @ + 1]
    /\ UNCHANGED selected /\ PanelRest

TripNext == TripSelect \/ TripRight \/ TripLeft

SpecTrip == Init /\ [][TripNext]_vars

\* ------------------------------------------------------- the logger alone
\* the text of the n-th line logged
Line(n) == [t |-> "line", i |-> n, j |-> n, val |-> <<>>]

LogLine ==
    /\ nlogged < MaxLogged
    /\ logs' = Logger_log(logs, Line(nlogged + 1))
    /\ nlogged' = nlogged + 1
    /\ UNCHANGED <<pc, ticks, exit, reset, pause, fps, entities, trail, id_counter, selected,
                   speed, gravity, drag, zoom, calls, tick0, read, forwarded, trip, upd, shown, toggled>>

\* the log panel of render
LogRender ==
    /\ shown' = Logger_get_logs(logs, LogLines)
    /\ UNCHANGED <<pc, ticks, exit, reset, pause, fps, logs, nlogged, entities, trail,
                   id_counter, selected, speed, gravity, drag, zoom, calls, tick0, read,
                   forwarded, trip, upd, toggled>>

LogNext == LogLine \/ LogRender

SpecLog == Init /\ [][LogNext]_vars

\* ------------------------------------------------------- the update alone
\* the collections update is applied to, as <<x, y, dx, dy>> in hundredths:
\* one to four bodies, at rest and moving, close enough for the clamp to
\* act, further apart than the inlier radius (as bodies that have drifted
\* are), two bodies that Body::rand drew at the same place, and two that
\* it drew half a unit apart; and four bodies strung out on a line, two of
\* them with three inliers each
UpdateScenarios ==
    { << <<0, 0, 0, 0>>, <<1000, 0, 0, 0>>, <<0, 1000, 0, 0>> >>,
      << <<-3000, 2000, 10, -5>>, <<4000, -1000, -10, 0>>, <<500, 4500, 0, 10>> >>,
      << <<-2000, -1500, 5, 10>>, <<2500, 3000, -10, 0>> >>,
      << <<2500, 3000, -10, 0>> >>,
      << <<-9000, 0, -5, 0>>, <<9000, 500, 5, 0>>, <<8000, -1000, 0, 5>>,
         <<8500, 2000, 10, 10>> >>,
      << <<1000, 1000, 5, 0>>, <<1000, 1000, -5, 0>>, <<-2000, 0, 0, 0>> >>,
      << <<0, 0, 0, 0>>, <<30, 40, 0, 0>> >>,
      << <<-8000, 0, 0, 0>>, <<0, 0, 0, 0>>, <<8000, 0, 0, 0>>, <<16000, 0, 0, 0>> >> }

\* the gravity settings update is applied with: 0.0, 1e2, 1e4, 1e308 and inf
UpdateGravities ==
    {GravityZero, GravityInitExp, GravityInitExp + 2, GravityMaxExp, GravityInf}

\* the drag settings: 0.99 and 1.00
UpdateDrags == {DragInit, DragInit + 1}

\* the speed settings, the time of Body::step
UpdateSpeeds == {-2, 1, SpeedInit}

UpdateInit ==
    /\ pc = "update"
    /\ ticks = 0
    /\ exit = FALSE
    /\ pause = FALSE
    /\ reset = FALSE
    /\ fps = Fps(FpsInit)
    /\ logs = <<>>
    /\ nlogged = 0
    /\ entities \in { [i \in 1..Len(sc) |-> Body(sc[i], i - 1)] : sc \in UpdateScenarios }
    /\ trail = <<>>
    /\ id_counter = Len(entities)
    /\ selected = 0
    /\ speed \in UpdateSpeeds
    /\ gravity \in UpdateGravities
    /\ drag \in UpdateDrags
    /\ zoom = ZoomInit
    /\ calls = <<>>
    /\ tick0 = [reset |-> FALSE, pause |-> FALSE, entities |-> entities, trail |-> <<>>]
    /\ read = <<>>
    /\ forwarded = <<>>
    /\ trip = [n |-> 0, k |-> 0, from |-> <<speed, gravity, drag>>]
    /\ upd = NoUpdate
    /\ shown = <<>>
    /\ toggled = FALSE

\* self.simulation.update(), once more
UpdateOnce ==
    /\ ticks < MaxSteps
    /\ Len(entities) > 0
    /\ LET u == NBody_update(entities, trail, speed, gravity, drag)
       IN /\ entities' = u.entities
          /\ trail' = u.trail
          /\ logs' = LogAll(logs, u.texts)
          /\ nlogged' = nlogged + Len(u.texts)
          /\ upd' = Computed(entities, u)
    /\ ticks' = ticks + 1
    /\ tick0' = [reset |-> FALSE, pause |-> FALSE, entities |-> entities, trail |-> trail]
    /\ calls' = <<"update">>
    /\ UNCHANGED <<pc, exit, reset, pause, fps, id_counter, selected, speed, gravity, drag,
                   zoom, read, forwarded, trip, shown, toggled>>

UpdateNext == UpdateOnce

SpecUpdate == UpdateInit /\ [][UpdateNext]_vars

\* ================================================================== claims
InTick == pc \in {"update", "draw", "poll", "fps"}

Invoked(op) == \E i \in DOMAIN calls : calls[i] = op

KeyPressRead(ev) == ev.type = "key" /\ ev.kind = "Press"

\* ---------------------------------------------------------------------- C1
\* C1: with no body left in the collection, update completes: it neither
\* panics nor loops without end.
C1_EmptyUpdateCompletes == pc \notin EmptyOutcomes

\* ---------------------------------------------------------------------- C2
SameKinematics(a, b) == a.x = b.x /\ a.y = b.y /\ a.dx = b.dx /\ a.dy = b.dy

\* C2: an update of a collection of exactly one body leaves that body's
\* position and velocity as they were.
C2_SingleBodyUnchanged ==
    (pc = "draw" /\ Invoked("update") /\ ~tick0.reset /\ Len(tick0.entities) = 1)
        => SameKinematics(entities[1], tick0.entities[1])

\* ---------------------------------------------------------------------- C3
\* C3: the buffer never holds more than 100 lines, and holds the most
\* recent min(100, logged) lines in the order they were logged.
C3_BoundedLog ==
    LET kept == Min(nlogged, LogCap)
    IN /\ Len(logs) <= LogCap
       /\ logs = [k \in 1..kept |-> Line(nlogged - kept + k)]

C3_Witness == nlogged > LogCap + 1 /\ Len(logs) = LogCap

\* ---------------------------------------------------------------------- C4
\* C4: an iteration that starts with the reset flag set invokes reset()
\* once, first of all, paused or not, and clears the flag; an iteration
\* that starts with it clear never invokes reset().
C4_ResetOneShot ==
    InTick =>
        /\ tick0.reset =>
              /\ calls /= <<>>
              /\ calls[1] = "reset"
              /\ \A i \in 2..Len(calls) : calls[i] /= "reset"
        /\ ~tick0.reset => ~Invoked("reset")
        /\ pc \in {"update", "draw", "poll"} => ~reset
        /\ (tick0.reset /\ pc = "update") =>
              /\ entities \in InitialScenario
              /\ trail = <<>>
              /\ id_counter = InitialBodies

C4_Witness ==
    /\ pc = "draw"
    /\ tick0.reset /\ tick0.pause /\ tick0.trail /= <<>>
    /\ calls = <<"reset">>
    /\ trail = <<>>

\* ---------------------------------------------------------------------- C5
\* C5: a paused iteration does not invoke update(); no step taken while
\* the pause flag is set and the reset flag clear changes the bodies or the
\* trail; and a paused iteration still renders and polls for input.
C5_PausedFrozen ==
    /\ [](InTick /\ tick0.pause => ~Invoked("update"))
    /\ [](pc = "fps" => Invoked("render") /\ Invoked("poll"))
    /\ [][(pause /\ ~reset) => (entities' = entities /\ trail' = trail)]_vars

C5_Witness ==
    /\ pc = "fps"
    /\ tick0.pause /\ ~tick0.reset
    /\ trail /= <<>> /\ trail = tick0.trail /\ entities = tick0.entities
    /\ read /= <<>>

\* ---------------------------------------------------------------------- C6
\* C6 as stated: the loop is left only with the exit flag set.
C6_ExitOnlyByFlag == pc \in {"done", "failed"} => exit

\* C6 amended: run returns Ok only with the exit flag set; only a
\* dispatched press of q sets the flag and nothing clears it; the one other
\* way out is a failure of draw, poll or read, which leaves the loop from
\* the draw or the poll of an iteration.
C6_ExitPaths ==
    /\ [](pc = "done" => exit)
    /\ [](pc \in {"top", "update", "draw", "poll", "fps", "done", "failed"})
    /\ [][exit => exit']_vars
    /\ [][(~exit /\ exit') => (pc = "poll" /\ read' = <<Press("q")>>)]_vars
    /\ [][(pc /= "failed" /\ pc' = "failed") => pc \in {"draw", "poll"}]_vars
    /\ [][(pc /= "done" /\ pc' = "done") => (pc = "top" /\ exit)]_vars

C6_Witness == pc = "done" /\ exit /\ read = <<Press("q")>>

\* ---------------------------------------------------------------------- C7
\* C7: a press of a reserved key is never handed to the Simulatable; a
\* press of any other key is handed to it as it was read and changes no
\* engine flag.
C7_KeyPartition ==
    [][(pc = "poll" /\ pc' = "fps" /\ read' /= <<>> /\ KeyPressRead(read'[1])) =>
          IF read'[1].code \in ReservedKeys
          THEN forwarded' = <<>>
          ELSE /\ forwarded' = read'
               /\ exit' = exit /\ pause' = pause /\ reset' = reset]_vars

C7_Witness == pc = "fps" /\ forwarded = <<Press("a")>> /\ ~pause

\* ---------------------------------------------------------------------- C8
\* C8: the selected index stays within 0..len-1; up at 0 and down at the
\* last index leave it, otherwise they move it by one; left and right
\* leave it.
C8_SelectionInBounds ==
    /\ [](selected \in 0..(NSettings - 1))
    /\ [][KeyUp => selected' = (IF selected = 0 THEN 0 ELSE selected - 1)]_vars
    /\ [][KeyDown =>
            selected' = (IF selected = NSettings - 1 THEN selected ELSE selected + 1)]_vars
    /\ [][(KeyLeft \/ KeyRight) => selected' = selected]_vars

C8_Witness == selected = NSettings - 1 /\ speed = SpeedInit - 1 /\ drag = DragInit + 1

\* ---------------------------------------------------------------------- C9
\* one multiplication of the f64 10^g by ten (up) or a tenth (down): 0.0
\* and inf are left as they are
GravityStep(g, g2, up) ==
    IF g \in {GravityZero, GravityInf} THEN g2 = g
    ELSE g2 = (IF up THEN g + 1 ELSE g - 1)

OneStep(up) ==
    /\ selected' = selected
    /\ selected = 0 =>
          /\ speed' = (IF up THEN speed + 1 ELSE speed - 1)
          /\ gravity' = gravity /\ drag' = drag
    /\ selected = 1 =>
          /\ GravityStep(gravity, gravity', up)
          /\ speed' = speed /\ drag' = drag
    /\ selected = 2 =>
          /\ drag' = (IF up THEN drag + 1 ELSE drag - 1)
          /\ speed' = speed /\ gravity' = gravity

\* C9: left and right change the selected setting by one step of its own
\* delta and leave the selected index and the other settings alone.
C9_AdjustsSelectedOnly ==
    /\ [][KeyRight => OneStep(TRUE)]_vars
    /\ [][KeyLeft => OneStep(FALSE)]_vars

C9_Witness ==
    selected = 1 /\ gravity = GravityInitExp + 3 /\ speed = SpeedInit /\ drag = DragInit

\* --------------------------------------------------------------------- C10
\* C10: a setting incremented N times and then decremented N times shows
\* the value it showed before.
C10_RoundTrip ==
    (trip.n > 0 /\ trip.k = trip.n)
        => SettingsValue(selected, Settings) = SettingsValue(selected, trip.from)

\* --------------------------------------------------------------------- C11
\* b1 is b0 with a tenth of the centroid c subtracted from x and from y, once
RecentredOnce(b0, b1, c) ==
    /\ b1.x = FSub(b0.x, Num(TDiv(c[1], 10)))
    /\ b1.y = FSub(b0.y, Num(TDiv(c[2], 10)))

\* C11: an update leaves every body, as stepped, and every trail marker,
\* as pushed, with a tenth of the centroid subtracted from its x and from
\* its y, once.
C11_RecentresAllOnce ==
    upd.before /= <<>> =>
        /\ \A i \in DOMAIN entities : RecentredOnce(upd.stepped[i], entities[i], upd.centroid)
        /\ \A k \in DOMAIN trail : RecentredOnce(upd.trailed[k], trail[k], upd.centroid)

\* --------------------------------------------------------------------- C12
\* every position is a number and no two bodies share one
DistinctPositions(ents) ==
    /\ \A i \in DOMAIN ents : IsNum(ents[i].x) /\ IsNum(ents[i].y)
    /\ \A i, j \in DOMAIN ents : i < j => (ents[i].x /= ents[j].x \/ ents[i].y /= ents[j].y)

\* the last update ran with G = 0 and drag = 1.0 on bodies at distinct places
InertialCase ==
    /\ upd.before /= <<>>
    /\ gravity = GravityZero
    /\ drag = 100
    /\ DistinctPositions(upd.before)

\* b0 advanced by its velocity times the step interval t
Advanced(b0, t) ==
    [x |-> FAdd(b0.x, FMulInt(b0.dx, t)), y |-> FAdd(b0.y, FMulInt(b0.dy, t))]

SameVelocity(a, b) == a.dx = b.dx /\ a.dy = b.dy

\* C12 as stated: with G = 0 and drag = 1.0 an update leaves every velocity
\* as it was and moves every position by velocity * step interval.
C12_Inertial ==
    InertialCase =>
        \A i \in DOMAIN entities :
            /\ SameVelocity(entities[i], upd.before[i])
            /\ entities[i].x = Advanced(upd.before[i], speed).x
            /\ entities[i].y = Advanced(upd.before[i], speed).y

\* C12 amended: with G = 0 and drag = 1.0 an update leaves every velocity
\* as it was, and moves every position by velocity * step interval less a
\* tenth of the centroid of the positions so advanced.
C12_InertialRecentred ==
    InertialCase =>
        \A i \in DOMAIN entities :
            /\ SameVelocity(entities[i], upd.before[i])
            /\ upd.stepped[i].x = Advanced(upd.before[i], speed).x
            /\ upd.stepped[i].y = Advanced(upd.before[i], speed).y
            /\ RecentredOnce(upd.stepped[i], entities[i], upd.centroid)

C12_Witness ==
    /\ InertialCase
    /\ ticks = MaxSteps
    /\ Len(entities) >= InitialBodies
    /\ upd.centroid[1] >= 10
    /\ \E i \in DOMAIN entities : entities[i].dx /= Num(0) /\ entities[i].x /= upd.stepped[i].x

\* --------------------------------------------------------------------- C13
\* a == b as f64 values: a NaN equals nothing
FEq(a, b) == a.k /= "nan" /\ b.k /= "nan" /\ a = b

\* the pair p of the last update as the force pass computed it
LastPair(p) == PairForce(upd.before[p.i + 1], upd.before[p.j + 1], gravity)

\* what the force pass added to each body for the pair p alone
Added(p) ==
    AddPair([k \in DOMAIN upd.before |-> [x |-> Num(0), y |-> Num(0)]], p, LastPair(p))

\* what was added to body i is the exact negation of what was added to body j
Negated(p) ==
    LET c == Added(p)
    IN /\ FEq(c[p.i + 1].x, FNeg(c[p.j + 1].x))
       /\ FEq(c[p.i + 1].y, FNeg(c[p.j + 1].y))

\* the component f added to a body at from does not point away from to
Toward(f, from, to) == f.k /= "nan" /\ Sign(f.v) \in {0, Sign(to.v - from.v)}

\* what was added to body i points from i toward j
Attractive(p) ==
    LET c == Added(p)
        a == upd.before[p.i + 1]
        b == upd.before[p.j + 1]
    IN /\ IsNum(a.x) /\ IsNum(a.y) /\ IsNum(b.x) /\ IsNum(b.y)
       /\ Toward(c[p.i + 1].x, a.x, b.x)
       /\ Toward(c[p.i + 1].y, a.y, b.y)

RECURSIVE SumForces(_, _)
SumForces(forces, k) ==
    IF k > Len(forces) THEN [x |-> Num(0), y |-> Num(0)]
    ELSE LET rest == SumForces(forces, k + 1)
         IN [x |-> FAdd(forces[k].x, rest.x), y |-> FAdd(forces[k].y, rest.y)]

ZeroSum ==
    LET sum == SumForces(upd.forces, 1)
    IN FEq(sum.x, Num(0)) /\ FEq(sum.y, Num(0))

LastPairs ==
    LET ids == 0..(Len(upd.before) - 1)
    IN { p \in [i : ids, j : ids] : p.i < p.j }

\* C13 as stated: for every pair what is added to i is the exact negation
\* of what is added to j and points from i toward j, and the accumulated
\* forces of every update sum to zero.
C13_ThirdLaw ==
    upd.before /= <<>> =>
        /\ \A p \in LastPairs : Negated(p) /\ Attractive(p)
        /\ ZeroSum

\* the separation is not zero and the force is a finite number
Regular(p) == LastPair(p).f = "num"

\* C13 amended: for every pair at non-zero separation with a finite force,
\* what is added to i is the exact negation of what is added to j, finite,
\* and points from i toward j; when every pair is such, the accumulated
\* forces sum to zero.  A pair at zero separation adds NaN to both bodies
\* on both axes; an infinite force at non-zero separation adds, per axis,
\* opposite infinities (NaN where the separation on that axis is zero).
C13_ThirdLawFinite ==
    upd.before /= <<>> =>
        /\ \A p \in LastPairs :
              Regular(p) =>
                  /\ Negated(p) /\ Attractive(p)
                  /\ IsNum(Added(p)[p.i + 1].x) /\ IsNum(Added(p)[p.i + 1].y)
        /\ (\A p \in LastPairs : Regular(p)) => ZeroSum
        /\ \A p \in LastPairs :
              LastPair(p).r = Num(0) =>
                  \A k \in {p.i + 1, p.j + 1} : Added(p)[k].x = NaN /\ Added(p)[k].y = NaN
        /\ \A p \in LastPairs :
              (LastPair(p).f = "inf" /\ LastPair(p).r /= Num(0)) =>
                  LET a == upd.before[p.i + 1]
                      b == upd.before[p.j + 1]
                      c == Added(p)
                  IN /\ c[p.i + 1].x = (IF a.x = b.x THEN NaN ELSE Inf(Sign(b.x.v - a.x.v)))
                     /\ c[p.i + 1].y = (IF a.y = b.y THEN NaN ELSE Inf(Sign(b.y.v - a.y.v)))
                     /\ c[p.j + 1].x = FNeg(c[p.i + 1].x)
                     /\ c[p.j + 1].y = FNeg(c[p.i + 1].y)

C13_Witness ==
    /\ Len(upd.before) >= InitialBodies
    /\ gravity = GravityInitExp
    /\ \A p \in LastPairs : Regular(p)
    /\ \E k \in DOMAIN upd.forces : upd.forces[k].x.v > 0 /\ upd.forces[k].y.v < 0
    /\ ZeroSum

\* --------------------------------------------------------------------- C14
\* a and b are less than the inlier radius apart
WithinRadius(a, b) ==
    /\ IsNum(a.x) /\ IsNum(a.y) /\ IsNum(b.x) /\ IsNum(b.y)
    /\ Abs(a.x.v - b.x.v) < InlierRadius
    /\ Abs(a.y.v - b.y.v) < InlierRadius
    /\ (a.x.v - b.x.v) * (a.x.v - b.x.v) + (a.y.v - b.y.v) * (a.y.v - b.y.v)
          < InlierRadius * InlierRadius

AllWithinRadius(pts) == \A i, j \in DOMAIN pts : WithinRadius(pts[i], pts[j])

RECURSIVE SumPositions(_, _)
SumPositions(pts, k) ==
    IF k > Len(pts) THEN <<0, 0>>
    ELSE LET rest == SumPositions(pts, k + 1)
         IN <<pts[k].x.v + rest[1], pts[k].y.v + rest[2]>>

\* the arithmetic mean of the positions of one or more bodies
MeanPosition(pts) ==
    <<TDiv(SumPositions(pts, 1)[1], Len(pts)), TDiv(SumPositions(pts, 1)[2], Len(pts))>>

\* C14: when every body is within the inlier radius of every other, the
\* centroid that update computes is the arithmetic mean of the positions.
C14_MeanWhenAllInliers ==
    (upd.before /= <<>> /\ AllWithinRadius(upd.stepped))
        => upd.centroid = MeanPosition(upd.stepped)

C14_Witness ==
    /\ Len(upd.stepped) >= InitialBodies
    /\ AllWithinRadius(upd.stepped)
    /\ upd.centroid[1] > 0 /\ upd.centroid[2] > 0
    /\ upd.centroid = MeanPosition(upd.stepped)
    /\ \E i \in DOMAIN upd.stepped : upd.stepped[i].x /= upd.before[i].x

\* --------------------------------------------------------------------- C15
\* the key c was read and dispatched by this step
Dispatched(c) == pc = "poll" /\ pc' = "fps" /\ read' = <<Press(c)>>

\* the id a body was created with, as far as its colour tells: id % 8
InsertionId(b) == b.colour

\* C15: add appends one new body at the end, remove deletes the body at the
\* front, and the bodies held are always the most recently inserted ones in
\* the order they were inserted.
C15_Fifo ==
    /\ [][Dispatched("a") =>
            /\ Len(entities') = Len(entities) + 1
            /\ SubSeq(entities', 1, Len(entities)) = entities
            /\ entities'[Len(entities')] \in Body_rand(id_counter)
            /\ id_counter' = id_counter + 1]_vars
    /\ [][Dispatched("x") =>
            /\ entities' = (IF entities = <<>> THEN <<>> ELSE Tail(entities))
            /\ id_counter' = id_counter]_vars
    /\ [](/\ Len(entities) <= id_counter
          /\ \A i \in DOMAIN entities :
                InsertionId(entities[i]) = (id_counter - Len(entities) + i - 1) % NColours)

C15_Witness ==
    /\ read = <<Press("x")>>
    /\ id_counter = InitialBodies + 2
    /\ Len(entities) = InitialBodies
    /\ InsertionId(entities[1]) = 2 /\ InsertionId(entities[3]) = 4

\* --------------------------------------------------------------------- C16
\* reset() has just run: it is all this iteration has invoked so far
JustReset == pc = "update" /\ calls = <<"reset">>

\* C16: immediately after reset(), whatever preceded it, there are exactly
\* three bodies, with the ids 0, 1 and 2, the trail is empty and the id
\* counter is 3.
C16_ResetRebuilds ==
    JustReset =>
        /\ Len(entities) = 3
        /\ \A i \in DOMAIN entities : InsertionId(entities[i]) = i - 1
        /\ trail = <<>>
        /\ id_counter = 3

C16_Witness ==
    /\ JustReset
    /\ Len(tick0.entities) = 4
    /\ Len(tick0.trail) >= 3
    /\ tick0.entities[1] \notin { entities[i] : i \in DOMAIN entities }

\* --------------------------------------------------------------------- C17
\* the lines of a rendered text, in order: what stands before each newline
LinesOf(text) == [k \in 1..(Len(text) \div 2) |-> text[2 * k - 1]]

\* text is whole lines, each ended by a newline
WholeLines(text) ==
    /\ Len(text) % 2 = 0
    /\ \A k \in DOMAIN text : (text[k] = Newline) <=> (k % 2 = 0)

\* text is the last min(10, len) lines of the buffer lg of len lines, in order
LastLines(text, lg) ==
    LET len == Len(lg)
        kept == Min(LogLines, len)
    IN /\ WholeLines(text)
       /\ LinesOf(text) = SubSeq(lg, len - kept + 1, len)

\* C17: the log text rendered from a buffer of len lines, for every len
\* from 0 to 100, is the last min(10, len) lines in logging order; asking
\* for more lines than the buffer holds returns all len of them.
C17_LastTenLines ==
    /\ [][shown' /= shown => LastLines(shown', logs)]_vars
    /\ [](LastLines(Logger_get_logs(logs, LogLines), logs))
    /\ [](\A n \in (Len(logs) + 1)..(LogCap + 1) :
             LinesOf(Logger_get_logs(logs, n)) = logs)

C17_Witness ==
    /\ Len(logs) = LogLines - 3
    /\ LinesOf(shown) = logs
    /\ Len(shown) = 2 * (LogLines - 3)

\* --------------------------------------------------------------------- C18
\* the instantaneous rates 1000 / elapsed_ms of the iterations that took
\* some time
Rates == { 1000 \div dt : dt \in DeltaTimes \ {0} }

\* C18: whatever the iterations measured, an elapsed time of 0 ms included,
\* the estimate stays a finite value no larger than the initial estimate
\* and the instantaneous rates seen.
C18_FpsGuarded ==
    /\ ~fps.big
    /\ \E bound \in Rates \cup {FpsInit} : fps.n <= bound

\* --------------------------------------------------------------------- C19
\* the unordered pairs of n bodies, 0-based, as <<i, j>> with i < j
UnorderedPairs(n) == { q \in (0..(n - 1)) \X (0..(n - 1)) : q[1] < q[2] }

\* C19: an update of n >= 2 bodies logs n(n-1)/2 pair lines, one for every
\* unordered pair i < j and none twice, and then n body lines, one per
\* body in order.
C19_EveryPairOnce ==
    Len(upd.before) >= 2 =>
        LET n == Len(upd.before)
            np == (n * (n - 1)) \div 2
            texts == upd.texts
        IN /\ Len(texts) = np + n
           /\ \A k \in 1..np : texts[k].t = "pair" /\ texts[k].i < texts[k].j
           /\ { <<texts[k].i, texts[k].j>> : k \in 1..np } = UnorderedPairs(n)
           /\ \A k, m \in 1..np :
                 (texts[k].i = texts[m].i /\ texts[k].j = texts[m].j) => k = m
           /\ \A k \in 1..n : texts[np + k].t = "force" /\ texts[np + k].i = k - 1

C19_Witness ==
    /\ Len(upd.before) = 4
    /\ Len(upd.texts) = 10
    /\ upd.texts[6].t = "pair" /\ upd.texts[6].i = 2 /\ upd.texts[6].j = 3
    /\ upd.texts[7].t = "force"
    /\ nlogged >= 20

\* --------------------------------------------------------------------- C20
\* one axis of Body::step with the acceleration a (hundredths), the step
\* interval t and the drag d (hundredths): position p0 and velocity v0
\* become p1 and v1
AxisStepped(p0, v0, p1, v1, a, t, d) ==
    /\ v1 = FMulRatio(FAdd(v0, Num(a * t)), d, 100)
    /\ p1 = FAdd(p0, FAdd(FMulInt(v0, t), Num(TDiv(a * t * t, 2))))

\* one axis was stepped with some acceleration within -0.1..0.1 that does
\* not oppose the force f, and is at the limit when f is infinite
AxisClamped(f, p0, v0, p1, v1) ==
    \E a \in (-AccMax)..AccMax :
        /\ f.k /= "nan"
        /\ Sign(a) \in {0, Sign(f.v)}
        /\ f.k = "inf" => Abs(a) = AccMax
        /\ AxisStepped(p0, v0, p1, v1, a, speed, drag)

\* C20 as stated: whatever the accumulated force, Body::step integrates
\* each axis with an acceleration within -0.1..0.1.
C20_ClampedStep ==
    \A i \in DOMAIN upd.before :
        LET b0 == upd.before[i]
            b1 == upd.stepped[i]
        IN /\ AxisClamped(upd.forces[i].x, b0.x, b0.dx, b1.x, b1.dx)
           /\ AxisClamped(upd.forces[i].y, b0.y, b0.dy, b1.y, b1.dy)

\* one axis as Body::step leaves it: clamped when the force is a number or
\* an infinity, NaN in position and velocity when the force is NaN
AxisClampedOrNaN(f, p0, v0, p1, v1) ==
    IF f.k = "nan" THEN p1 = NaN /\ v1 = NaN
    ELSE AxisClamped(f, p0, v0, p1, v1)

\* C20 amended: for an accumulated force that is not NaN, Body::step
\* integrates each axis with an acceleration within -0.1..0.1; a NaN force
\* passes the clamp and leaves NaN in the position and the velocity.
C20_ClampedStepOrNaN ==
    \A i \in DOMAIN upd.before :
        LET b0 == upd.before[i]
            b1 == upd.stepped[i]
        IN /\ AxisClampedOrNaN(upd.forces[i].x, b0.x, b0.dx, b1.x, b1.dx)
           /\ AxisClampedOrNaN(upd.forces[i].y, b0.y, b0.dy, b1.y, b1.dy)

C20_Witness ==
    /\ gravity = GravityInitExp /\ drag = 100 /\ speed = SpeedInit
    /\ \E i \in DOMAIN upd.before :
          /\ IsNum(upd.forces[i].x) /\ IsNum(upd.stepped[i].dx) /\ IsNum(upd.before[i].dx)
          /\ upd.stepped[i].dx.v - upd.before[i].dx.v = AccMax * speed
    /\ \E i \in DOMAIN upd.before :
          /\ IsNum(upd.forces[i].x) /\ IsNum(upd.stepped[i].dx) /\ IsNum(upd.before[i].dx)
          /\ upd.stepped[i].dx.v - upd.before[i].dx.v \in 1..(AccMax * speed - 1)

\* --------------------------------------------------------------------- C21
\* the bodies within the inlier radius of the candidate i
InlierSet(pts, i) == { k \in DOMAIN pts : WithinRadius(pts[i], pts[k]) }

\* the earliest candidate among those with the most inliers
Winner(pts) ==
    CHOOSE w \in DOMAIN pts :
        /\ \A i \in DOMAIN pts : Cardinality(InlierSet(pts, i)) <= Cardinality(InlierSet(pts, w))
        /\ \A i \in 1..(w - 1) : Cardinality(InlierSet(pts, i)) < Cardinality(InlierSet(pts, w))

RECURSIVE SumOf(_, _, _)
\* the sum of the positions of the bodies of set, from body k on
SumOf(pts, set, k) ==
    IF k > Len(pts) THEN <<0, 0>>
    ELSE LET rest == SumOf(pts, set, k + 1)
         IN IF k \in set THEN <<pts[k].x.v + rest[1], pts[k].y.v + rest[2]>> ELSE rest

\* the centroid of the last update is the sum of the winner's inliers
\* divided by the number of bodies
DividedByAll ==
    LET pts == upd.stepped
        sum == SumOf(pts, InlierSet(pts, Winner(pts)), 1)
    IN upd.centroid = <<TDiv(sum[1], Len(pts)), TDiv(sum[2], Len(pts))>>

\* the quotients s / n and s / k are the same number
SameQuotient(s, n, k) == s * k = s * n

\* the centroid of the last update is the mean of the winner's inliers
IsInlierMean ==
    LET pts == upd.stepped
        set == InlierSet(pts, Winner(pts))
        sum == SumOf(pts, set, 1)
    IN /\ set /= {}
       /\ SameQuotient(sum[1], Len(pts), Cardinality(set))
       /\ SameQuotient(sum[2], Len(pts), Cardinality(set))

\* some body is outside the radius of the winner
HasOutlier ==
    LET pts == upd.stepped
    IN InlierSet(pts, Winner(pts)) \notin {{}, DOMAIN pts}

\* C21 as stated: the centroid is the sum of the inliers of the earliest
\* candidate with the most inliers, divided by the number of bodies, and
\* with a body outside that candidate's radius it is not the inlier mean.
C21_DividedByTotal ==
    upd.before /= <<>> =>
        /\ DividedByAll
        /\ HasOutlier => ~IsInlierMean

\* C21 amended: the centroid is the sum of the inliers of the earliest
\* candidate with the most inliers, divided by the number of bodies; with
\* a body outside that candidate's radius it is the inlier mean only when
\* the inlier positions sum to (0, 0).
C21_DividedByTotalUnlessZero ==
    upd.before /= <<>> =>
        /\ DividedByAll
        /\ HasOutlier =>
              LET pts == upd.stepped
              IN IsInlierMean <=> SumOf(pts, InlierSet(pts, Winner(pts)), 1) = <<0, 0>>

C21_Witness ==
    /\ upd.before /= <<>>
    /\ HasOutlier
    /\ ~IsInlierMean
    /\ Winner(upd.stepped) > 1
    /\ upd.centroid[1] > 0
    /\ upd.centroid /= MeanPosition(upd.stepped)

\* --------------------------------------------------------------------- C22
\* this step is an update() that completed
UpdateRan == pc = "update" /\ pc' = "draw" /\ calls' = Append(calls, "update")

\* m is a trail marker of the body b: no mass, no velocity, b's position
MarkerOf(m, b) ==
    /\ m.mass = 0
    /\ m.dx = Num(0) /\ m.dy = Num(0)
    /\ m.x = b.x /\ m.y = b.y

AtStart == pc = "top" /\ ticks = 0

\* this step is the reset block of the loop
ResetRuns == pc = "top" /\ ~exit /\ reset

\* what C23 says of the pause key and of the start
StartsPausedAndToggles ==
    /\ [](AtStart => (pause /\ ~exit /\ ~reset))
    /\ [](~toggled => (pause /\ upd = NoUpdate /\ ~Invoked("update")))
    /\ [][Dispatched(" ") => pause' = ~pause]_vars
    /\ [][pause' /= pause => Dispatched(" ")]_vars

\* C23 as stated: the engine starts paused with exit and reset clear; until
\* a space has been dispatched no update() is invoked and the bodies and
\* the trail do not change; every space press flips the pause flag.
C23_PausedUntilSpace ==
    /\ StartsPausedAndToggles
    /\ [][~toggled' => (entities' = entities /\ trail' = trail)]_vars

\* C23 amended: as stated, except that reset() runs while paused: until a
\* space has been dispatched the bodies and the trail change only in the
\* reset block, which rebuilds the bodies and empties the trail.
C23_PausedUntilSpaceOrReset ==
    /\ StartsPausedAndToggles
    /\ [][(~toggled' /\ ~ResetRuns) => (entities' = entities /\ trail' = trail)]_vars
    /\ [][(~toggled' /\ ResetRuns) =>
            (entities' \in InitialScenario /\ trail' = <<>>)]_vars

C23_Witness ==
    /\ pc = "fps"
    /\ toggled /\ pause
    /\ read = <<Press(" ")>>
    /\ upd /= NoUpdate
    /\ ~tick0.pause

\* --------------------------------------------------------------------- C24
\* the place of an invocation in the order of a tick
Rank(op) ==
    CASE op = "reset" -> 1
      [] op = "update" -> 2
      [] op = "render" -> 3
      [] op = "poll" -> 4
      [] op = "handle_events" -> 5

\* C24: what a tick invokes is in the order reset, update, render, input,
\* each at most once; once the quit key has been dispatched nothing more
\* is reset, updated, rendered or dispatched; a reset or pause key leaves
\* the bodies alone in its own tick and decides the reset block and the
\* update of the next one.
C24_TickOrder ==
    /\ [](\A m, n \in DOMAIN calls : m < n => Rank(calls[m]) < Rank(calls[n]))
    /\ [][exit =>
            /\ calls' = calls /\ read' = read /\ shown' = shown
            /\ entities' = entities /\ trail' = trail
            /\ pc' \in {"fps", "top", "done"}]_vars
    /\ [][(Dispatched("r") \/ Dispatched(" ")) =>
            /\ entities' = entities /\ trail' = trail
            /\ calls' = calls \o <<"poll", "handle_events">>]_vars
    /\ [][Dispatched("r") => reset']_vars
    /\ [][(pc = "fps" \/ pc = "top") => pause' = pause]_vars
    /\ [][(pc = "fps") => reset' = reset]_vars
    /\ [][(pc = "top" /\ pc' = "update") =>
            calls' = (IF reset THEN <<"reset">> ELSE <<>>)]_vars
    /\ [][(pc = "update" /\ pc' = "draw") =>
            calls' = (IF pause THEN calls ELSE Append(calls, "update"))]_vars

C24_Witness ==
    /\ pc = "done"
    /\ ticks >= 3
    /\ calls = <<"reset", "update", "render", "poll", "handle_events">>
    /\ read = <<Press("q")>>

\* --------------------------------------------------------------------- C25
\* C25: the reset block leaves the settings, the selected index, the pause
\* and exit flags and the log buffer as they are.
C25_ResetFrame ==
    [][ResetRuns =>
          /\ speed' = speed /\ gravity' = gravity /\ drag' = drag
          /\ selected' = selected
          /\ pause' = pause /\ exit' = exit
          /\ logs' = logs /\ nlogged' = nlogged]_vars

C25_Witness ==
    /\ JustReset
    /\ ~pause
    /\ logs /= <<>>
    /\ tick0.trail /= <<>>
    /\ <<selected, speed, gravity, drag>> /= <<0, SpeedInit, GravityInitExp, DragInit>>

\* --------------------------------------------------------------------- C26
\* this step dispatched a press of the key c
KeyStep(c) == ~exit /\ ~reset /\ read' = <<Press(c)>>

\* C26: the zoom stays within 1..20; '-' lowers it by one unless it is 1,
\* '+' raises it by one unless it is 20, and nothing else changes it.
C26_ZoomBounded ==
    /\ [](zoom \in 1..20)
    /\ [][KeyStep("-") => zoom' = (IF zoom = 1 THEN 1 ELSE zoom - 1)]_vars
    /\ [][KeyStep("+") => zoom' = (IF zoom = 20 THEN 20 ELSE zoom + 1)]_vars
    /\ [][zoom' /= zoom => (KeyStep("-") \/ KeyStep("+"))]_vars

C26_Witness ==
    /\ zoom = 1
    /\ read = <<Press("-")>>
    /\ ticks = MaxOtherKeys
    /\ entities /= <<>> /\ InsertionId(entities[1]) /= 0

====
